---- MODULE Spec2Model ----
(***************************************************************************)
(* The two emulator variants of the repository: src/EMAUI0.2.py (numpy     *)
(* backed Memory with an RDRAM and a read-only PIF ROM region, Graphics    *)
(* with draw_rectangle, a Kernel whose decode_instruction returns a        *)
(* closure) and src/FlamesVM64.py (bytearray Memory, a Kernel whose        *)
(* execute_instruction decodes and executes in one method, with a Jump).   *)
(*                                                                         *)
(* TLC's integers are 32-bit signed, so an unsigned 32-bit value is held   *)
(* as the pair <<hi, lo>> of its two 16-bit halves (value = hi*65536+lo).  *)
(* A Python int of FlamesVM64, which is unbounded, is the same pair with   *)
(* hi unbounded.                                                           *)
(***************************************************************************)
EXTENDS Integers, Sequences, FiniteSets, TLC

VARIABLES
    variant,      \* which of the two files the behaviour runs: "EMAUI" | "Flames"
    numpy2,       \* EMAUI: the installed numpy follows NEP 50 (numpy >= 2) or not
    memory,       \* EMAUI Kernel.memory: [rdram, pif_rom, reads, writes]
    graphics,     \* EMAUI Kernel.graphics.framebuffer, [row][col]
    pc,           \* EMAUI Kernel.pc
    registers,    \* EMAUI Kernel.registers, np.uint32[32]
    running,      \* EMAUI Kernel.running
    cycles,       \* EMAUI Kernel.cycles
    error,        \* EMAUI: type of the exception run() caught last ("none": none yet)
    phase,        \* "idle": no call in progress; "run": inside run()'s while loop
    calls,        \* history: the Kernel methods called so far, in order
    decoded,      \* history: what decode_instruction returned in the last loop iteration
    snap,         \* history: registers, memory, framebuffer and pc when the last fetch began
    f_memory,     \* Flames Kernel.memory: [size, memory]
    f_graphics,   \* Flames Kernel.graphics.framebuffer, flat list
    f_pc,         \* Flames Kernel.pc
    f_registers,  \* Flames Kernel.registers, list of 32 Python ints
    f_running,    \* Flames Kernel.running
    f_steps,      \* history: instructions fetched by the Flames kernel
    escaped,      \* type of the exception that left a Kernel method last ("none": none)
    last,         \* history: the Memory operation applied last and its outcome
    image         \* the RGB image the last render() put on the canvas

vars == <<variant, numpy2, memory, graphics, pc, registers, running, cycles,
          error, phase, calls, decoded, snap, f_memory, f_graphics, f_pc,
          f_registers, f_running, f_steps, escaped, last, image>>


(***************************************************************************)
(* Sizes.  The source's sizes (8 MB of RDRAM, 2 KB of PIF ROM, 24 MB of    *)
(* Flames RAM, a 640 x 480 framebuffer) are scaled down; the region bases  *)
(* are the source's.                                                       *)
(***************************************************************************)
RDRAM_SIZE == 12
RDRAM_START == 0
RDRAM_END == RDRAM_START + RDRAM_SIZE - 1
PIF_ROM_START == 532676608
PIF_ROM_SIZE == 4
PIF_ROM_END == PIF_ROM_START + PIF_ROM_SIZE - 1
FLAMES_SIZE == 12
width == 3
height == 2
\* calls of load_program / run per behaviour, Memory operations per behaviour,
\* instructions a Flames run may fetch in the model
MaxLoads == 2
MaxRuns == 2
MaxOps == 2
MaxSteps == 40

(***************************************************************************)
(* 32-bit values as <<hi, lo>>.                                            *)
(***************************************************************************)
Half == 256 * 256
Zero32 == <<0, 0>>
Min(a, b) == IF a <= b THEN a ELSE b
Max(a, b) == IF a >= b THEN a ELSE b

\* an addition whose low half does not carry into the high half
u32_add_no_carry(a, b) == <<(a[1] + b[1]) % Half, (a[2] + b[2]) % Half>>

\* numpy uint32 + uint32: wraps modulo 2^32 (a RuntimeWarning, no exception)
u32_add(a, b) ==
    LET s == a[2] + b[2]
    IN  <<(a[1] + b[1] + (s \div Half)) % Half, s % Half>>

\* numpy uint32 - uint32: wraps modulo 2^32
u32_sub(a, b) ==
    LET d == a[2] - b[2]
        borrow == IF d < 0 THEN 1 ELSE 0
    IN  <<(a[1] - b[1] - borrow) % Half, d % Half>>

\* x & 0xFFFFFFFF
mask32(a) == <<a[1] % Half, a[2]>>

\* struct.pack('>I', value): the four bytes, most significant first
pack(value) ==
    << value[1] \div 256, value[1] % 256, value[2] \div 256, value[2] % 256 >>

\* struct.unpack('>I', buf)[0] of a 4-byte buffer
unpack(buf) == << buf[1] * 256 + buf[2], buf[3] * 256 + buf[4] >>

\* a[lo:hi] of a numpy array or bytearray held as a function on 0..n-1,
\* for 0 <= lo: the elements lo .. min(hi, n)-1 as a sequence
Slice(arr, n, lo, hi) ==
    LET top == Min(hi, n)
    IN  IF lo >= top THEN << >> ELSE [i \in 1..(top - lo) |-> arr[lo + i - 1]]

(***************************************************************************)
(* EMAUI0.2.py, class Memory.  A Memory value is the record                *)
(* [rdram, pif_rom, reads, writes]; an operation returns the Memory after  *)
(* it, the value returned and the type of the exception raised ("none").   *)
(***************************************************************************)
\* Memory.__init__
Memory_init ==
    [ rdram   |-> [i \in 0..(RDRAM_SIZE - 1) |-> 0],
      pif_rom |-> [i \in 0..(PIF_ROM_SIZE - 1) |-> 0],
      reads   |-> 0,
      writes  |-> 0 ]

map_address(address) ==
    IF RDRAM_START <= address /\ address <= RDRAM_END
    THEN [region |-> "RDRAM", offset |-> address - RDRAM_START]
    ELSE IF PIF_ROM_START <= address /\ address <= PIF_ROM_END
    THEN [region |-> "PIF_ROM", offset |-> address - PIF_ROM_START]
    ELSE [region |-> "MemoryError", offset |-> 0]

read_byte(m, address) ==
    LET r == map_address(address)
        m2 == [m EXCEPT !.reads = @ + 1]
    IN  IF r.region = "MemoryError" THEN [m |-> m, ret |-> 0, err |-> "MemoryError"]
        ELSE IF r.region = "RDRAM" THEN [m |-> m2, ret |-> m.rdram[r.offset], err |-> "none"]
        ELSE [m |-> m2, ret |-> m.pif_rom[r.offset], err |-> "none"]

\* write_byte without the read-only branch: a write lands in the PIF ROM
write_byte_rom_writable(m, address, value) ==
    LET r == map_address(address)
        m2 == [m EXCEPT !.writes = @ + 1]
    IN  IF r.region = "MemoryError" THEN [m |-> m, ret |-> 0, err |-> "MemoryError"]
        ELSE IF r.region = "RDRAM"
        THEN [m |-> [m2 EXCEPT !.rdram[r.offset] = value % 256], ret |-> 0, err |-> "none"]
        ELSE [m |-> [m2 EXCEPT !.pif_rom[r.offset] = value % 256], ret |-> 0, err |-> "none"]

write_byte(m, address, value) ==
    LET r == map_address(address)
        m2 == [m EXCEPT !.writes = @ + 1]
    IN  IF r.region = "MemoryError" THEN [m |-> m, ret |-> 0, err |-> "MemoryError"]
        ELSE IF r.region = "RDRAM"
        THEN [m |-> [m2 EXCEPT !.rdram[r.offset] = value % 256], ret |-> 0, err |-> "none"]
        ELSE [m |-> m2, ret |-> 0, err |-> "MemoryError"]

\* struct.unpack('>I', arr[offset:offset+4]): struct.error unless the slice
\* holds four bytes
unpack_slice(m, arr, n, offset) ==
    LET buf == Slice(arr, n, offset, offset + 4)
    IN  IF Len(buf) = 4 THEN [m |-> m, ret |-> unpack(buf), err |-> "none"]
        ELSE [m |-> m, ret |-> Zero32, err |-> "struct.error"]

read_word(m, address) ==
    LET r == map_address(address)
        m2 == [m EXCEPT !.reads = @ + 4]
    IN  IF r.region = "MemoryError" THEN [m |-> m, ret |-> Zero32, err |-> "MemoryError"]
        ELSE IF r.region = "RDRAM" THEN unpack_slice(m2, m.rdram, RDRAM_SIZE, r.offset)
        ELSE unpack_slice(m2, m.pif_rom, PIF_ROM_SIZE, r.offset)

\* int(b) of the string scalar numpy makes of a bytes object (trailing NUL
\* bytes dropped): its value when it is made of ASCII digits only, -1 for a
\* ValueError.  (int() also takes a sign, blanks and underscores; the values
\* drawn below hold none of these bytes.)
IsDigit(b) == 48 <= b /\ b <= 57
Stripped(bs) ==
    LET keep == {n \in 1..Len(bs) : bs[n] # 0}
    IN  IF keep = {} THEN << >>
        ELSE SubSeq(bs, 1, CHOOSE n \in keep : \A k \in keep : k <= n)
RECURSIVE Decimal(_)
Decimal(ds) ==
    IF ds = << >> THEN 0
    ELSE Decimal(SubSeq(ds, 1, Len(ds) - 1)) * 10 + (ds[Len(ds)] - 48)
BytesLiteral(bs) ==
    LET ds == Stripped(bs)
    IN  IF ds # << >> /\ \A i \in 1..Len(ds) : IsDigit(ds[i]) THEN Decimal(ds) ELSE -1

\* arr[offset:offset+4] = struct.pack('>I', value) on a numpy uint8 array.
\* numpy takes a bytes object as ONE string scalar, not as four bytes, and
\* casts it to uint8 by parsing it as a decimal literal: a ValueError for
\* anything that is no literal, and otherwise the parsed number broadcast to
\* every byte of the slice (an out-of-range number wraps before NEP 50 and
\* is an OverflowError after).
assign_packed(arr, n, offset, value, np2) ==
    LET lit == BytesLiteral(pack(value))
        top == Min(offset + 4, n)
    IN  IF lit = -1 THEN [arr |-> arr, err |-> "ValueError"]
        ELSE IF lit > 255 /\ np2 THEN [arr |-> arr, err |-> "OverflowError"]
        ELSE [arr |-> [i \in 0..(n - 1) |->
                          IF offset <= i /\ i < top THEN lit % 256 ELSE arr[i]],
              err |-> "none"]

write_word(m, address, value, np2) ==
    LET r == map_address(address)
        m2 == [m EXCEPT !.writes = @ + 4]
    IN  IF r.region = "MemoryError" THEN [m |-> m, ret |-> Zero32, err |-> "MemoryError"]
        ELSE IF r.region = "RDRAM"
        THEN LET a == assign_packed(m.rdram, RDRAM_SIZE, r.offset, value, np2)
             IN  [m |-> [m2 EXCEPT !.rdram = a.arr], ret |-> Zero32, err |-> a.err]
        ELSE [m |-> m2, ret |-> Zero32, err |-> "MemoryError"]

(***************************************************************************)
(* FlamesVM64.py, class Memory: [size, memory], memory a bytearray held as *)
(* a sequence (Python index i is element i+1).                             *)
(***************************************************************************)
Flames_Memory_init == [size |-> FLAMES_SIZE, memory |-> [i \in 1..FLAMES_SIZE |-> 0]]

\* Python's slice bounds: a negative index counts from the end, and both
\* ends are clipped to 0..len
PyIndex(i, n) == IF i < 0 THEN Max(i + n, 0) ELSE Min(i, n)
\* s[lo:hi]
PySlice(s, lo, hi) ==
    LET a == PyIndex(lo, Len(s))
        b == PyIndex(hi, Len(s))
    IN  IF a >= b THEN << >> ELSE SubSeq(s, a + 1, b)
\* s[lo:hi] = bs, which may change the length of a bytearray
PySliceAssign(s, lo, hi, bs) ==
    LET a == PyIndex(lo, Len(s))
        b == Max(a, PyIndex(hi, Len(s)))
    IN  SubSeq(s, 1, a) \o bs \o SubSeq(s, b + 1, Len(s))

Flames_read_byte(m, address) ==
    IF 0 <= address /\ address < m.size
    THEN [m |-> m, ret |-> m.memory[address + 1], err |-> "none"]
    ELSE [m |-> m, ret |-> 0, err |-> "MemoryError"]

\* a bytearray item must be in range(0, 256): ValueError otherwise
Flames_write_byte(m, address, value) ==
    IF 0 <= address /\ address < m.size
    THEN IF value \in 0..255
         THEN [m |-> [m EXCEPT !.memory[address + 1] = value], ret |-> 0, err |-> "none"]
         ELSE [m |-> m, ret |-> 0, err |-> "ValueError"]
    ELSE [m |-> m, ret |-> 0, err |-> "MemoryError"]

Flames_read_word(m, address) ==
    IF 0 <= address + 3 /\ address + 3 < m.size
    THEN LET buf == PySlice(m.memory, address, address + 4)
         IN  IF Len(buf) = 4 THEN [m |-> m, ret |-> unpack(buf), err |-> "none"]
             ELSE [m |-> m, ret |-> Zero32, err |-> "struct.error"]
    ELSE [m |-> m, ret |-> Zero32, err |-> "MemoryError"]

Flames_write_word(m, address, value) ==
    IF 0 <= address + 3 /\ address + 3 < m.size
    THEN [m |-> [m EXCEPT !.memory = PySliceAssign(@, address, address + 4, pack(value))],
          ret |-> Zero32, err |-> "none"]
    ELSE [m |-> m, ret |-> Zero32, err |-> "MemoryError"]

(***************************************************************************)
(* State after construction: Memory(), Graphics(canvas), Kernel(memory,    *)
(* graphics) of either file.                                               *)
(***************************************************************************)
Rows == 0..(height - 1)
Cols == 0..(width - 1)
RegIdx == 0..31

\* Graphics.__init__ (EMAUI): np.zeros((height, width), dtype=np.uint16)
Graphics_init == [y \in Rows |-> [x \in Cols |-> 0]]
\* Graphics.__init__ (Flames): [0] * (width * height)
Flames_Graphics_init == [i \in 1..(width * height) |-> Zero32]

\* Graphics.__init__: Image.new("RGB", (width, height)), all black (Flames: the
\* empty canvas)
Image_init == [y \in Rows |-> [x \in Cols |-> <<0, 0, 0>>]]

\* Kernel.__init__: np.zeros(32, dtype=np.uint32) / [0] * 32, held as a
\* sequence (register i is element i+1)
Registers_init == [i \in 1..32 |-> Zero32]
Reg(regs, i) == regs[i + 1]
SetReg(regs, i, v) == [regs EXCEPT ![i + 1] = v]

\* decoded, before any instruction was decoded
NoDecode ==
    [op |-> "nothing", opcode |-> 0, rs |-> 0, rt |-> 0, rd |-> 0, funct |-> 0, imm |-> 0]

\* last, before any Memory operation.  A byte passed or returned is recorded
\* as the 32-bit value <<0, byte>>.
NoOp(v) == [op |-> "none", n |-> 0, address |-> 0, value |-> Zero32, ret |-> Zero32,
            err |-> "none",
            before |-> IF v = "EMAUI" THEN Memory_init ELSE Flames_Memory_init]
ByteRet(r) == [r EXCEPT !.ret = <<0, @>>]

Constructed(v, np2) ==
    /\ variant = v
    /\ numpy2 = np2
    /\ memory = Memory_init
    /\ graphics = Graphics_init
    /\ pc = 0
    /\ registers = Registers_init
    /\ running = TRUE
    /\ cycles = 0
    /\ error = "none"
    /\ phase = "idle"
    /\ calls = << >>
    /\ decoded = NoDecode
    /\ snap = [registers |-> Registers_init,
               rdram |-> IF v = "EMAUI" THEN Memory_init.rdram ELSE Flames_Memory_init.memory,
               framebuffer |-> IF v = "EMAUI" THEN Graphics_init ELSE Flames_Graphics_init,
               pc |-> 0]
    /\ f_memory = Flames_Memory_init
    /\ f_graphics = Flames_Graphics_init
    /\ f_pc = 0
    /\ f_registers = Registers_init
    /\ f_running = TRUE
    /\ f_steps = 0
    /\ escaped = "none"
    /\ last = NoOp(v)
    /\ image = Image_init

(***************************************************************************)
(* The Memory classes on their own: any sequence of at most MaxOps calls   *)
(* of read_byte, write_byte, read_word, write_word, at addresses inside,   *)
(* at the edges of and outside the regions.                                *)
(***************************************************************************)
EmauiAddrs ==
    { -1, 0, 1, RDRAM_END - 3, RDRAM_END - 2, RDRAM_END, RDRAM_END + 1,
      PIF_ROM_START - 1, PIF_ROM_START, PIF_ROM_END - 2, PIF_ROM_END, PIF_ROM_END + 1 }
FlamesAddrs ==
    { -5, -4, -3, -1, 0, 1, FLAMES_SIZE - 4, FLAMES_SIZE - 3, FLAMES_SIZE - 1,
      FLAMES_SIZE, FLAMES_SIZE + 1 }
\* 0x00, 0xAB, 0x1FF
ByteVals == {0, 171, 511}
\* 0x00000000, 0x12345678, 0xFFFFFFFF, 0x30303037 (b'0007'), 0x37000000 (b'7\0\0\0'),
\* 0x31323334 (b'1234')
WordVals ==
    { <<0, 0>>, <<4660, 22136>>, <<65535, 65535>>, <<12336, 12343>>, <<14080, 0>>,
      <<12594, 13108>> }

kernelVars == <<graphics, pc, registers, running, cycles, error, phase, calls, decoded,
                snap, f_graphics, f_pc, f_registers, f_running, f_steps, escaped, image>>

\* one Memory call of the EMAUI file, recorded in last
MemCall(op, address, value, r) ==
    /\ variant = "EMAUI"
    /\ last.n < MaxOps
    /\ memory' = r.m
    /\ last' = [op |-> op, n |-> last.n + 1, address |-> address, value |-> value,
                ret |-> r.ret, err |-> r.err, before |-> memory]
    /\ UNCHANGED <<variant, numpy2, f_memory, kernelVars>>

ReadByte == \E a \in EmauiAddrs : MemCall("read_byte", a, Zero32, ByteRet(read_byte(memory, a)))
WriteByte ==
    \E a \in EmauiAddrs, v \in ByteVals :
        MemCall("write_byte", a, <<0, v>>, ByteRet(write_byte(memory, a, v)))
ReadWord == \E a \in EmauiAddrs : MemCall("read_word", a, Zero32, read_word(memory, a))
WriteWord ==
    \E a \in EmauiAddrs, v \in WordVals :
        MemCall("write_word", a, v, write_word(memory, a, v, numpy2))

\* one Memory call of the Flames file, recorded in last
Flames_MemCall(op, address, value, r) ==
    /\ variant = "Flames"
    /\ last.n < MaxOps
    /\ f_memory' = r.m
    /\ last' = [op |-> op, n |-> last.n + 1, address |-> address, value |-> value,
                ret |-> r.ret, err |-> r.err, before |-> f_memory]
    /\ UNCHANGED <<variant, numpy2, memory, kernelVars>>

Flames_ReadByte ==
    \E a \in FlamesAddrs :
        Flames_MemCall("read_byte", a, Zero32, ByteRet(Flames_read_byte(f_memory, a)))
Flames_WriteByte ==
    \E a \in FlamesAddrs, v \in ByteVals :
        Flames_MemCall("write_byte", a, <<0, v>>,
                       ByteRet(Flames_write_byte(f_memory, a, v)))
Flames_ReadWord ==
    \E a \in FlamesAddrs :
        Flames_MemCall("read_word", a, Zero32, Flames_read_word(f_memory, a))
Flames_WriteWord ==
    \E a \in FlamesAddrs, v \in WordVals :
        Flames_MemCall("write_word", a, v, Flames_write_word(f_memory, a, v))

InitMem == \E v \in {"EMAUI", "Flames"}, np2 \in BOOLEAN : Constructed(v, np2)

NextMem ==
    \/ ReadByte
    \/ WriteByte
    \/ ReadWord
    \/ WriteWord
    \/ Flames_ReadByte
    \/ Flames_WriteByte
    \/ Flames_ReadWord
    \/ Flames_WriteWord

SpecMem == InitMem /\ [][NextMem]_vars

(***************************************************************************)
(* Claims about the Memory classes, checked under SpecMem.                 *)
(***************************************************************************)
InRdram(a) == RDRAM_START <= a /\ a <= RDRAM_END
InPifRom(a) == PIF_ROM_START <= a /\ a <= PIF_ROM_END
\* bits 31-24 and bits 7-0 of a 32-bit value
TopByte(v) == v[1] \div 256
LowByte(v) == v[2] % 256

\* C5: for every address a with a..a+3 inside the writable RAM and every
\* 32-bit v, write_word(a, v) succeeds, read_word(a) then returns v, the bytes
\* are stored big-endian (read_byte(a) is bits 31-24, read_byte(a+3) is bits
\* 7-0) and no byte outside a..a+3 changes; in both variants.
C5_WordRoundTrip ==
    last.op = "write_word" =>
        LET a == last.address
            v == last.value
        IN  IF variant = "EMAUI"
            THEN (InRdram(a) /\ InRdram(a + 3)) =>
                    /\ last.err = "none"
                    /\ read_word(memory, a).err = "none"
                    /\ read_word(memory, a).ret = v
                    /\ read_byte(memory, a).ret = TopByte(v)
                    /\ read_byte(memory, a + 3).ret = LowByte(v)
                    /\ \A i \in 0..(RDRAM_SIZE - 1) :
                          (i < a \/ i > a + 3) => memory.rdram[i] = last.before.rdram[i]
                    /\ memory.pif_rom = last.before.pif_rom
            ELSE (0 <= a /\ a + 3 < f_memory.size) =>
                    /\ last.err = "none"
                    /\ Flames_read_word(f_memory, a).err = "none"
                    /\ Flames_read_word(f_memory, a).ret = v
                    /\ Flames_read_byte(f_memory, a).ret = TopByte(v)
                    /\ Flames_read_byte(f_memory, a + 3).ret = LowByte(v)
                    /\ Len(f_memory.memory) = Len(last.before.memory)
                    /\ \A i \in 0..(Len(f_memory.memory) - 1) :
                          (i < a \/ i > a + 3) =>
                              f_memory.memory[i + 1] = last.before.memory[i + 1]

\* C6: at an address in no mapped region (EMAUI: outside RDRAM and outside
\* PIF ROM; Flames: below 0 or at or above size) each of read_byte,
\* write_byte, read_word, write_word raises the invalid-memory-access error
\* (MemoryError) and leaves every memory byte and the memory size unchanged.
C6_UnmappedFails ==
    last.op # "none" =>
        IF variant = "EMAUI"
        THEN (~InRdram(last.address) /\ ~InPifRom(last.address)) =>
                /\ last.err = "MemoryError"
                /\ memory.rdram = last.before.rdram
                /\ memory.pif_rom = last.before.pif_rom
        ELSE (last.address < 0 \/ last.address >= last.before.size) =>
                /\ last.err = "MemoryError"
                /\ f_memory = last.before

\* C7: EMAUI: read_word(a) and write_word(a, v) raise whenever a is inside a
\* region and a+3 is past that region's last byte; the failing call changes
\* no byte of any region (so no word is read from, or written to, fewer than
\* four bytes).
C7_WordAtRegionEnd ==
    (variant = "EMAUI" /\ last.op \in {"read_word", "write_word"}
       /\ (   (InRdram(last.address) /\ last.address + 3 > RDRAM_END)
           \/ (InPifRom(last.address) /\ last.address + 3 > PIF_ROM_END))) =>
        /\ last.err # "none"
        /\ memory.rdram = last.before.rdram
        /\ memory.pif_rom = last.before.pif_rom

\* C8: EMAUI: write_byte and write_word at any address of the read-only PIF ROM
\* raise, and after any sequence of Memory operations every PIF ROM byte has
\* its initial value (0).
C8_PifRomReadOnly ==
    variant = "EMAUI" =>
        /\ (last.op \in {"write_byte", "write_word"} /\ InPifRom(last.address)) =>
               last.err = "MemoryError"
        /\ \A i \in 0..(PIF_ROM_SIZE - 1) : memory.pif_rom[i] = 0

\* a second operation was a write into the PIF ROM, which raised
C8_Witness ==
    /\ variant = "EMAUI"
    /\ last.op = "write_byte"
    /\ last.n = 2
    /\ last.address = PIF_ROM_END
    /\ last.value = <<0, 171>>
    /\ last.err = "MemoryError"

(***************************************************************************)
(* EMAUI0.2.py, class Graphics.                                            *)
(***************************************************************************)
\* min(bound, v) for a Python int bound and a uint32 v
MinInt32(bound, v) == IF v[1] = 0 /\ v[2] < bound THEN v[2] ELSE bound
\* v < n for a uint32 v and a Python int n
Less32(v, n) == v[1] = 0 /\ v[2] < n

\* Graphics.draw_rectangle, called with five np.uint32 scalars: x + width
\* wraps modulo 2^32, and the uint32 color stored into the uint16 array keeps
\* its low 16 bits
draw_rectangle(fb, x, y, w, h, color) ==
    LET x2 == MinInt32(width, u32_add(x, w))
        y2 == MinInt32(height, u32_add(y, h))
    IN  IF Less32(x, x2) /\ Less32(y, y2)
        THEN [row \in Rows |-> [col \in Cols |->
                 IF y[2] <= row /\ row < y2 /\ x[2] <= col /\ col < x2
                 THEN color[2] ELSE fb[row][col]]]
        ELSE fb

\* a conversion that takes red from bits 15-11, as for a 5-6-5 color
render_red_565(c) == ((((c \div 2048) % 32) * 8) % Half) % 256
\* one cell's red channel: ((framebuffer >> 10) & 0x1F) * 8 in uint16, then
\* astype(np.uint8)
render_red(c) == ((((c \div 1024) % 32) * 8) % Half) % 256
render_green(c) == ((((c \div 32) % 32) * 8) % Half) % 256
render_blue(c) == (((c % 32) * 8) % Half) % 256
\* Graphics.render: the RGB array handed to Image.fromarray
render(fb) ==
    [row \in Rows |-> [col \in Cols |->
        << render_red(fb[row][col]), render_green(fb[row][col]), render_blue(fb[row][col]) >>]]

(***************************************************************************)
(* EMAUI0.2.py, class Kernel.                                              *)
(***************************************************************************)
\* the fields of a 32-bit instruction word <<hi, lo>>
Opcode(w) == w[1] \div 1024
FieldRs(w) == (w[1] \div 32) % 32
FieldRt(w) == w[1] % 32
FieldRd(w) == w[2] \div 2048
FieldFunct(w) == w[2] % 64
FieldImm(w) == w[2]

\* the ADDI branch's sign extension: imm -= 0x10000 when imm & 0x8000
sign_extend(imm) == IF (imm \div 32768) % 2 = 1 THEN imm - Half ELSE imm

Decoded(op, w, imm) ==
    [op |-> op, opcode |-> Opcode(w), rs |-> FieldRs(w), rt |-> FieldRt(w),
     rd |-> FieldRd(w), funct |-> FieldFunct(w), imm |-> imm]

\* Kernel.decode_instruction: the closure returned, as a record.  Opcode 0
\* with a funct other than 0x20 and 0x22 reaches the end of the method, which
\* returns None.
decode_instruction(instruction) ==
    LET opcode == Opcode(instruction)
    IN  IF opcode = 0
        THEN IF FieldFunct(instruction) = 32 THEN Decoded("ADD", instruction, 0)
             ELSE IF FieldFunct(instruction) = 34 THEN Decoded("SUB", instruction, 0)
             ELSE Decoded("None", instruction, 0)
        ELSE IF opcode = 8
        THEN Decoded("ADDI", instruction, sign_extend(FieldImm(instruction)))
        ELSE IF opcode = 15 THEN Decoded("LUI", instruction, FieldImm(instruction))
        ELSE IF opcode = 45 THEN Decoded("DRAW", instruction, 0)
        ELSE IF opcode = 46 THEN Decoded("RENDER", instruction, 0)
        ELSE IF opcode = 63 THEN Decoded("HALT", instruction, 0)
        ELSE Decoded("UNKNOWN", instruction, 0)

\* self.registers[rs] + imm for a np.uint32 and a Python int.  A negative
\* Python int is out of bounds for uint32 under NEP 50 (OverflowError);
\* before it the sum is an int64, and & 0xFFFFFFFF brings it back.
add_imm(reg, imm, np2) ==
    IF imm >= 0 THEN [val |-> mask32(u32_add(reg, <<0, imm>>)), err |-> "none"]
    ELSE IF np2 THEN [val |-> reg, err |-> "OverflowError"]
    ELSE [val |-> mask32(u32_add(reg, <<Half - 1, imm + Half>>)), err |-> "none"]

\* a LUI that stores the immediate unshifted
lui_unshifted(imm) == <<0, imm>>
\* the LUI closure's value: imm << 16
lui_value(imm) == <<imm, 0>>

\* a Halt closure that leaves the flag set
halt_keeps_running == TRUE
\* the Halt closure: self.running = False
halt_running == FALSE

\* closures whose Unknown operation stores the opcode in reg[rt] before raising
call_unknown_stores(d, regs, fb, run, np2) ==
    LET same == [registers |-> regs, framebuffer |-> fb, running |-> run, err |-> "none"]
    IN  CASE d.op = "ADD" ->
               [same EXCEPT !.registers =
                   SetReg(regs, d.rd, mask32(u32_add(Reg(regs, d.rs), Reg(regs, d.rt))))]
          [] d.op = "SUB" ->
               [same EXCEPT !.registers =
                   SetReg(regs, d.rd, mask32(u32_sub(Reg(regs, d.rs), Reg(regs, d.rt))))]
          [] d.op = "ADDI" ->
               LET a == add_imm(Reg(regs, d.rs), d.imm, np2)
               IN  IF a.err = "none"
                   THEN [same EXCEPT !.registers = SetReg(regs, d.rt, a.val)]
                   ELSE [same EXCEPT !.err = a.err]
          [] d.op = "LUI" -> [same EXCEPT !.registers = SetReg(regs, d.rt, lui_value(d.imm))]
          [] d.op = "DRAW" ->
               [same EXCEPT !.framebuffer =
                   draw_rectangle(fb, Reg(regs, 1), Reg(regs, 2), Reg(regs, 3),
                                  Reg(regs, 4), Reg(regs, 5))]
          [] d.op = "RENDER" -> same
          [] d.op = "HALT" -> [same EXCEPT !.running = halt_running]
          [] d.op = "UNKNOWN" ->
               [same EXCEPT !.registers = SetReg(regs, d.rt, <<0, d.opcode>>),
                            !.err = "ValueError"]
          [] OTHER -> [same EXCEPT !.err = "TypeError"]

\* the call func() of the closure d: the registers, framebuffer and running
\* flag after it, and the type of the exception raised ("none")
call(d, regs, fb, run, np2) ==
    LET same == [registers |-> regs, framebuffer |-> fb, running |-> run, err |-> "none"]
    IN  CASE d.op = "ADD" ->
               [same EXCEPT !.registers =
                   SetReg(regs, d.rd, mask32(u32_add(Reg(regs, d.rs), Reg(regs, d.rt))))]
          [] d.op = "SUB" ->
               [same EXCEPT !.registers =
                   SetReg(regs, d.rd, mask32(u32_sub(Reg(regs, d.rs), Reg(regs, d.rt))))]
          [] d.op = "ADDI" ->
               LET a == add_imm(Reg(regs, d.rs), d.imm, np2)
               IN  IF a.err = "none"
                   THEN [same EXCEPT !.registers = SetReg(regs, d.rt, a.val)]
                   ELSE [same EXCEPT !.err = a.err]
          [] d.op = "LUI" -> [same EXCEPT !.registers = SetReg(regs, d.rt, lui_value(d.imm))]
          [] d.op = "DRAW" ->
               [same EXCEPT !.framebuffer =
                   draw_rectangle(fb, Reg(regs, 1), Reg(regs, 2), Reg(regs, 3),
                                  Reg(regs, 4), Reg(regs, 5))]
          [] d.op = "RENDER" -> same
          [] d.op = "HALT" -> [same EXCEPT !.running = halt_running]
          [] d.op = "UNKNOWN" -> [same EXCEPT !.err = "ValueError"]
          [] OTHER -> [same EXCEPT !.err = "TypeError"]

\* a load that checks the length first and writes nothing when it fails
load_checked_first(m, program, i) ==
    IF Len(program) > RDRAM_SIZE THEN [m |-> m, err |-> "MemoryError", at |-> RDRAM_SIZE]
    ELSE [m |-> [m EXCEPT !.writes = @ + Len(program),
                          !.rdram = [j \in 0..(RDRAM_SIZE - 1) |->
                                        IF j < Len(program) THEN program[j + 1] % 256
                                        ELSE @[j]]],
          err |-> "none", at |-> Len(program)]

\* Kernel.load_program's loop from index i on: write_byte(i, program[i]) until
\* the end of the program or the first exception
RECURSIVE load_from(_, _, _)
load_from(m, program, i) ==
    IF i >= Len(program) THEN [m |-> m, err |-> "none", at |-> i]
    ELSE LET r == write_byte(m, i, program[i + 1])
         IN  IF r.err # "none" THEN [m |-> r.m, err |-> r.err, at |-> i]
             ELSE load_from(r.m, program, i + 1)

(***************************************************************************)
(* FlamesVM64.py, classes Graphics and Kernel.  Registers, colors and the  *)
(* operands of + are Python ints: <<hi, lo>> with hi unbounded.            *)
(***************************************************************************)
\* a + b on Python ints
py_add(a, b) ==
    LET s == a[2] + b[2]
    IN  <<a[1] + b[1] + (s \div Half), s % Half>>

\* Graphics.draw_pixel
draw_pixel(fb, x, y, color) ==
    IF Less32(x, width) /\ Less32(y, height)
    THEN [fb EXCEPT ![y[2] * width + x[2] + 1] = color]
    ELSE fb

\* Graphics.render (Flames): pixels[x, y] of the image put on the canvas
Flames_render(fb) ==
    [row \in Rows |-> [col \in Cols |->
        LET color == fb[row * width + col + 1][2]
        IN  << ((color \div 32) % 8) * 32, ((color \div 4) % 8) * 32, (color % 4) * 64 >>]]

TopNibble == 16384 * 16384
\* a jump that uses the target as a byte address
jump_target_unshifted(p, instruction) ==
    (p \div TopNibble) * TopNibble + ((instruction[1] % 1024) * Half + instruction[2])
\* a jump relative to the advanced pc
jump_target_relative(p, instruction) ==
    p + ((instruction[1] % 1024) * Half + instruction[2]) * 4
\* (pc & 0xF0000000) | (target << 2), target = instruction & 0x3FFFFFF
jump_target(p, instruction) ==
    (p \div TopNibble) * TopNibble + ((instruction[1] % 1024) * Half + instruction[2]) * 4

\* Kernel.execute_instruction: the registers, framebuffer, pc and running flag
\* after it, and the type of the exception raised ("none")
execute_instruction(instruction, regs, fb, p, run) ==
    LET opcode == Opcode(instruction)
        same == [registers |-> regs, framebuffer |-> fb, pc |-> p, running |-> run,
                 err |-> "none"]
    IN  CASE opcode = 0 ->
               [same EXCEPT !.registers =
                   SetReg(regs, FieldRd(instruction),
                          py_add(Reg(regs, FieldRs(instruction)),
                                 Reg(regs, FieldRt(instruction))))]
          [] opcode = 1 ->
               [same EXCEPT !.registers =
                   SetReg(regs, FieldRs(instruction),
                          py_add(Reg(regs, FieldRs(instruction)),
                                 <<0, FieldImm(instruction)>>))]
          [] opcode = 2 -> [same EXCEPT !.pc = jump_target(p, instruction)]
          [] opcode = 3 ->
               [same EXCEPT !.framebuffer =
                   draw_pixel(fb, Reg(regs, 1), Reg(regs, 2), Reg(regs, 3))]
          [] opcode = 4 -> same
          [] opcode = 63 -> [same EXCEPT !.running = FALSE]
          [] OTHER -> [same EXCEPT !.err = "ValueError"]

\* Kernel.load_program's loop from index i on
RECURSIVE Flames_load_from(_, _, _)
Flames_load_from(m, program, i) ==
    IF i >= Len(program) THEN [m |-> m, err |-> "none", at |-> i]
    ELSE LET r == Flames_write_byte(m, i, program[i + 1])
         IN  IF r.err # "none" THEN [m |-> r.m, err |-> r.err, at |-> i]
             ELSE Flames_load_from(r.m, program, i + 1)

(***************************************************************************)
(* Programs: byte sequences made of instruction words.                     *)
(***************************************************************************)
RType(rs, rt, rd, funct) == <<rs * 32 + rt, rd * 2048 + funct>>
IType(opcode, rs, rt, imm) == <<opcode * 1024 + rs * 32 + rt, imm>>
JType(opcode, target) == <<opcode * 1024 + (target \div Half), target % Half>>

RECURSIVE Bytes(_)
\* the big-endian bytes of a sequence of words
Bytes(ws) == IF ws = << >> THEN << >> ELSE pack(Head(ws)) \o Bytes(Tail(ws))

HALT == IType(63, 0, 0, 0)
Programs ==
    { Bytes(<< HALT >>),
      \* addi r1, r1, 100 ; halt
      Bytes(<< IType(8, 1, 1, 100), HALT >>),
      \* opcode 1 (unknown to EMAUI; Flames: r1 += 10) ; addi r2, r2, 7 ; halt
      Bytes(<< IType(1, 1, 0, 10), IType(8, 2, 2, 7), HALT >>),
      \* addi r1, r1, 5 ; opcode 0x3E (unknown to both) ; halt
      Bytes(<< IType(8, 1, 1, 5), IType(62, 0, 0, 0), HALT >>),
      \* lui r2, 0xFFFF ; addi r2, r2, -1 ; halt
      Bytes(<< IType(15, 0, 2, 65535), IType(8, 2, 2, 65535), HALT >>),
      \* add r3, r1, r2 with funct 0x21 ; halt
      Bytes(<< RType(1, 2, 3, 33), HALT >>),
      \* addi r3, r3, 2 ; addi r4, r4, 1 ; addi r5, r5, 0x1F: no halt, the run
      \* reaches the end of the RAM
      Bytes(<< IType(8, 3, 3, 2), IType(8, 4, 4, 1), IType(8, 5, 5, 31) >>),
      \* addi r3, r3, 2 ; (zero word)
      Bytes(<< IType(8, 3, 3, 2) >>),
      \* draw rectangle ; render ; halt
      Bytes(<< IType(45, 0, 0, 0), IType(46, 0, 0, 0), HALT >>),
      \* Flames: r1 += 1 ; jump 0
      Bytes(<< IType(1, 1, 0, 1), JType(2, 0) >>),
      \* Flames: r3 += 7 ; draw pixel ; render(4)
      Bytes(<< IType(1, 3, 0, 7), IType(3, 0, 0, 0), IType(4, 0, 0, 0) >>),
      \* Flames: jump 8 ; r1 += 9 ; halt
      Bytes(<< JType(2, 2), IType(1, 1, 0, 9), HALT >>),
      \* Flames: r1 += 0xFFFF ; r1 = r1 + r1 ; jump 4
      Bytes(<< IType(1, 1, 0, 65535), RType(1, 1, 1, 0), JType(2, 1) >>),
      \* one byte more than the RAM holds
      [i \in 1..(RDRAM_SIZE + 1) |-> IF i = 1 THEN 252 ELSE 0] }

\* GameWindow.demo_program (EMAUI): a list of nine 32-bit words
demo_program ==
    << IType(15, 0, 1, 1),       \* lui r1, 0x0001
       IType(8, 1, 1, 0),        \* addi r1, r1, 0x0000
       IType(8, 2, 2, 100),      \* addi r2, r0, 100
       IType(8, 3, 3, 200),      \* addi r3, r0, 200
       IType(8, 4, 4, 150),      \* addi r4, r0, 150
       IType(8, 5, 5, 31),       \* addi r5, r0, 0x1F
       IType(45, 0, 0, 0),       \* draw rectangle
       IType(46, 0, 0, 0),       \* render
       IType(63, 0, 0, 0) >>     \* halt
\* a list of words as load_program's loop passes it to write_byte, one item
\* per address: write_byte keeps value & 0xFF, which the low half decides
Items(ws) == [i \in 1..Len(ws) |-> ws[i][2]]

Count(seq, x) == Cardinality({i \in 1..Len(seq) : seq[i] = x})

(***************************************************************************)
(* The Kernel of either file: load_program and run, run() one loop         *)
(* iteration at a time.                                                    *)
(***************************************************************************)
\* what the EMAUI load_program is given: bytes, or a list of larger ints (as
\* the demo program is): 0x1FC, 0x100, 0x200, 0x300, stored as FC 00 00 00
EmauiPrograms == Programs \cup { << 508, 256, 512, 768 >> }

\* a load_program that also restarts the machine
LoadProgram_restarts ==
    /\ variant = "EMAUI" /\ phase = "idle"
    /\ Count(calls, "load_program") < MaxLoads
    /\ \E program \in EmauiPrograms :
          LET r == load_from(memory, program, 0)
          IN  /\ memory' = r.m
              /\ pc' = IF r.err = "none" THEN 0 ELSE pc
              /\ escaped' = r.err
    /\ calls' = Append(calls, "load_program")
    /\ running' = TRUE
    /\ UNCHANGED <<variant, numpy2, graphics, registers, cycles, error, phase,
                   decoded, snap, f_memory, f_graphics, f_pc, f_registers, f_running,
                   f_steps, last, image>>

\* Kernel.load_program (EMAUI)
LoadProgram ==
    /\ variant = "EMAUI" /\ phase = "idle"
    /\ Count(calls, "load_program") < MaxLoads
    /\ \E program \in EmauiPrograms :
          LET r == load_from(memory, program, 0)
          IN  /\ memory' = r.m
              /\ pc' = IF r.err = "none" THEN 0 ELSE pc
              /\ escaped' = r.err
    /\ calls' = Append(calls, "load_program")
    /\ UNCHANGED <<variant, numpy2, graphics, registers, running, cycles, error, phase,
                   decoded, snap, f_memory, f_graphics, f_pc, f_registers, f_running,
                   f_steps, last, image>>

\* GameWindow.__init__ (EMAUI): self.kernel.load_program(self.demo_program) on
\* the Kernel just constructed
LoadDemo ==
    /\ variant = "EMAUI" /\ phase = "idle"
    /\ calls = << >>
    /\ LET r == load_from(memory, Items(demo_program), 0)
       IN  /\ memory' = r.m
           /\ pc' = IF r.err = "none" THEN 0 ELSE pc
           /\ escaped' = r.err
    /\ calls' = Append(calls, "load_program")
    /\ UNCHANGED <<variant, numpy2, graphics, registers, running, cycles, error, phase,
                   decoded, snap, f_memory, f_graphics, f_pc, f_registers, f_running,
                   f_steps, last, image>>

\* a call of Kernel.run: control reaches the while loop
RunCall ==
    /\ phase = "idle"
    /\ Count(calls, "run") < MaxRuns
    /\ phase' = "run"
    /\ calls' = Append(calls, "run")
    /\ UNCHANGED <<variant, numpy2, memory, graphics, pc, registers, running, cycles,
                   error, decoded, snap, f_memory, f_graphics, f_pc, f_registers,
                   f_running, f_steps, escaped, last, image>>

\* an except clause that reports the error and leaves the flag set
except_keeps_running == TRUE
\* run()'s except clause: self.running = False
except_running == FALSE

\* one iteration of run()'s loop (EMAUI): fetch_instruction, decode_instruction,
\* the call of the closure, and the except clause when any of them raises
Step ==
    /\ variant = "EMAUI" /\ phase = "run" /\ running
    /\ LET f == read_word(memory, pc)
           d == decode_instruction(f.ret)
           x == call(d, registers, graphics, running, numpy2)
       IN  /\ snap' = [registers |-> registers, rdram |-> memory.rdram,
                       framebuffer |-> graphics, pc |-> pc]
           /\ memory' = f.m
           /\ IF f.err # "none"
              THEN /\ error' = f.err
                   /\ running' = except_running
                   /\ decoded' = NoDecode
                   /\ UNCHANGED <<pc, cycles, registers, graphics, image>>
              ELSE /\ pc' = pc + 4
                   /\ cycles' = cycles + 1
                   /\ decoded' = d
                   /\ registers' = x.registers
                   /\ graphics' = x.framebuffer
                   /\ image' = IF d.op = "RENDER" THEN render(graphics) ELSE image
                   /\ error' = IF x.err # "none" THEN x.err ELSE error
                   /\ running' = IF x.err # "none" THEN except_running ELSE x.running
    /\ UNCHANGED <<variant, numpy2, phase, calls, f_memory, f_graphics, f_pc,
                   f_registers, f_running, f_steps, escaped, last>>

\* run() returns (EMAUI): the loop condition is false
RunReturn ==
    /\ variant = "EMAUI" /\ phase = "run" /\ ~running
    /\ phase' = "idle"
    /\ escaped' = "none"
    /\ UNCHANGED <<variant, numpy2, memory, graphics, pc, registers, running, cycles,
                   error, calls, decoded, snap, f_memory, f_graphics, f_pc, f_registers,
                   f_running, f_steps, last, image>>

\* Kernel.load_program (Flames)
Flames_LoadProgram ==
    /\ variant = "Flames" /\ phase = "idle"
    /\ Count(calls, "load_program") < MaxLoads
    /\ \E program \in Programs :
          LET r == Flames_load_from(f_memory, program, 0)
          IN  /\ f_memory' = r.m
              /\ f_pc' = IF r.err = "none" THEN 0 ELSE f_pc
              /\ escaped' = r.err
    /\ calls' = Append(calls, "load_program")
    /\ UNCHANGED <<variant, numpy2, memory, graphics, pc, registers, running, cycles,
                   error, phase, decoded, snap, f_graphics, f_registers, f_running,
                   f_steps, last, image>>

\* one iteration of run()'s loop (Flames): fetch_instruction and
\* execute_instruction; an exception of either leaves run(), which has no
\* handler
Flames_Step ==
    /\ variant = "Flames" /\ phase = "run" /\ f_running
    /\ f_steps < MaxSteps
    /\ LET f == Flames_read_word(f_memory, f_pc)
           x == execute_instruction(f.ret, f_registers, f_graphics, f_pc + 4, f_running)
       IN  /\ snap' = [registers |-> f_registers, rdram |-> f_memory.memory,
                       framebuffer |-> f_graphics, pc |-> f_pc]
           /\ IF f.err # "none"
              THEN /\ escaped' = f.err
                   /\ phase' = "idle"
                   /\ UNCHANGED <<f_pc, f_registers, f_graphics, f_running, f_steps, image>>
              ELSE /\ f_steps' = f_steps + 1
                   /\ f_registers' = x.registers
                   /\ f_graphics' = x.framebuffer
                   /\ image' = IF Opcode(f.ret) = 4 THEN Flames_render(f_graphics) ELSE image
                   /\ f_pc' = x.pc
                   /\ f_running' = x.running
                   /\ escaped' = x.err
                   /\ phase' = IF x.err # "none" THEN "idle" ELSE phase
    /\ UNCHANGED <<variant, numpy2, memory, graphics, pc, registers, running, cycles,
                   error, calls, decoded, f_memory, last>>

\* run() returns (Flames): the loop condition is false
Flames_RunReturn ==
    /\ variant = "Flames" /\ phase = "run" /\ ~f_running
    /\ phase' = "idle"
    /\ escaped' = "none"
    /\ UNCHANGED <<variant, numpy2, memory, graphics, pc, registers, running, cycles,
                   error, calls, decoded, snap, f_memory, f_graphics, f_pc, f_registers,
                   f_running, f_steps, last, image>>

Init == \E v \in {"EMAUI", "Flames"}, np2 \in BOOLEAN : Constructed(v, np2)

Next ==
    \/ LoadProgram
    \/ LoadDemo
    \/ RunCall
    \/ Step
    \/ RunReturn
    \/ Flames_LoadProgram
    \/ Flames_Step
    \/ Flames_RunReturn

Spec == Init /\ [][Next]_vars

(***************************************************************************)
(* The EMAUI loop body on drawn inputs: one ADD or SUB word followed by    *)
(* the halt word, run from a register file whose registers 1, 2 and 31     *)
(* hold any of RegVals.  (Such register files arise in the middle of a     *)
(* run: lui and addi build any 32-bit value.)                              *)
(***************************************************************************)
\* 0, 1, 100, 200, 0x0000FFFF, 0x80000000, 0xFFFFFFFF
RegVals == { <<0, 0>>, <<0, 1>>, <<0, 100>>, <<0, 200>>, <<0, 65535>>, <<32768, 0>>,
             <<65535, 65535>> }
RegSel == {0, 1, 2, 31}
AluWords == { RType(rs, rt, rd, funct) : rs \in RegSel, rt \in RegSel, rd \in RegSel,
                                         funct \in {32, 34} }

InitExec ==
    \E np2 \in BOOLEAN, w \in AluWords, v1 \in RegVals, v2 \in RegVals :
        /\ variant = "EMAUI"
        /\ numpy2 = np2
        /\ memory = load_from(Memory_init, Bytes(<< w, HALT >>), 0).m
        /\ graphics = Graphics_init
        /\ pc = 0
        /\ registers = SetReg(SetReg(SetReg(Registers_init, 1, v1), 2, v2), 31, <<4660, 22136>>)
        /\ running = TRUE
        /\ cycles = 0
        /\ error = "none"
        /\ phase = "idle"
        /\ calls = << "load_program" >>
        /\ decoded = NoDecode
        /\ snap = [registers |-> registers, rdram |-> memory.rdram,
                   framebuffer |-> Graphics_init, pc |-> 0]
        /\ f_memory = Flames_Memory_init
        /\ f_graphics = Flames_Graphics_init
        /\ f_pc = 0
        /\ f_registers = Registers_init
        /\ f_running = TRUE
        /\ f_steps = 0
        /\ escaped = "none"
        /\ last = NoOp("EMAUI")
        /\ image = Image_init

NextExec ==
    \/ RunCall
    \/ Step
    \/ RunReturn

SpecExec == InitExec /\ [][NextExec]_vars

(***************************************************************************)
(* Claims about run(), checked under Spec.                                 *)
(***************************************************************************)
\* the RDRAM holding the Halt word FC 00 00 00 at address 0 and nothing else
HaltImage == [i \in 0..(RDRAM_SIZE - 1) |-> IF i = 0 THEN 252 ELSE 0]
\* the word at address a of an RDRAM
WordAt(rdram, a) == unpack(<< rdram[a], rdram[a + 1], rdram[a + 2], rdram[a + 3] >>)
\* no load_program was called after a run(): the runs began at PC 0 of a fresh Kernel
NoLoadAfterRun ==
    \A i \in 1..Len(calls) : \A j \in 1..Len(calls) :
        (calls[i] = "run" /\ calls[j] = "load_program") => j < i
LastCall == IF calls = << >> THEN "none" ELSE calls[Len(calls)]

\* C1: EMAUI: on a fresh Kernel whose memory holds only the Halt word at address
\* 0, loaded by load_program, run() fetches exactly once (cycles = 1, PC = 4),
\* ends with running = False, raises and reports no error, and leaves all 32
\* registers as they were before run().
C1_HaltOnly ==
    (variant = "EMAUI" /\ calls = << "load_program", "run" >> /\ phase = "idle"
       /\ memory.rdram = HaltImage) =>
        /\ cycles = 1
        /\ pc = 4
        /\ ~running
        /\ error = "none"
        /\ escaped = "none"
        /\ registers = Registers_init
        /\ registers = snap.registers

\* the run of the Halt-only program has returned
C1_Witness ==
    /\ variant = "EMAUI"
    /\ calls = << "load_program", "run" >>
    /\ phase = "idle"
    /\ memory.rdram = HaltImage
    /\ decoded.op = "HALT"
    /\ cycles = 1

KnownOpcodes == {0, 8, 15, 45, 46, 63}

\* C2: EMAUI: once run() has fetched a word whose opcode is none of 0x00, 0x08,
\* 0x0F, 0x2D, 0x2E, 0x3F, the machine is faulted (running = False, the error
\* reported) and nothing after that word is fetched: in every later state of
\* that run and after it, cycles is the number of instructions up to and
\* including that word and PC is the address after it.
C2_UnknownOpcodeStops ==
    (variant = "EMAUI" /\ Count(calls, "run") >= 1 /\ NoLoadAfterRun
       /\ pc >= 4 /\ pc <= RDRAM_SIZE
       /\ Opcode(WordAt(memory.rdram, pc - 4)) \notin KnownOpcodes) =>
        /\ ~running
        /\ error = "ValueError"
        /\ decoded.op = "UNKNOWN"
        /\ cycles = pc \div 4
        /\ pc = snap.pc + 4
        /\ (phase = "idle" => escaped = "none")

\* run() has returned after the unknown opcode 0x3E at address 4, which
\* followed one executed addi
C2_Witness ==
    /\ variant = "EMAUI"
    /\ calls = << "load_program", "run" >>
    /\ phase = "idle"
    /\ decoded.op = "UNKNOWN"
    /\ decoded.opcode = 62
    /\ pc = 8
    /\ cycles = 2
    /\ Reg(registers, 1) = <<0, 5>>
    /\ Opcode(WordAt(memory.rdram, 8)) = 63

\* C3: in both variants no error raised while run() fetches or executes an
\* instruction leaves run(): whenever run() has returned, it returned normally
\* and the stopped state is recorded (running = False).
C3_NoErrorEscapesRun ==
    (LastCall = "run" /\ phase = "idle") =>
        /\ escaped = "none"
        /\ IF variant = "EMAUI" THEN ~running ELSE ~f_running

\* C4: in both variants the stopped state is terminal: during every call of
\* run() after one that ended (by the halt opcode or by a fault) no instruction
\* is fetched or executed, and no register, memory byte, framebuffer cell or PC
\* changes.
C4_StoppedIsTerminal ==
    [][ (phase = "run" /\ Count(calls, "run") >= 2) =>
            UNCHANGED << memory, graphics, pc, registers, cycles,
                         f_memory, f_graphics, f_pc, f_registers, f_steps >> ]_vars

\* C9: EMAUI: decode_instruction returns an executable operation for every
\* word; a word with opcode 0 and a funct other than 0x20 and 0x22 decodes to
\* the Unknown operation, whose execution raises the unknown-opcode error.
C9_DecodeTotal ==
    (variant = "EMAUI" /\ decoded.op # "nothing") =>
        /\ decoded.op \in {"ADD", "SUB", "ADDI", "LUI", "DRAW", "RENDER", "HALT", "UNKNOWN"}
        /\ (decoded.opcode = 0 /\ decoded.funct \notin {32, 34}) =>
               (decoded.op = "UNKNOWN" /\ error = "ValueError")

(***************************************************************************)
(* Claims about the instructions, checked under SpecExec.                  *)
(***************************************************************************)
\* r = a + b modulo 2^32, stated on the low 24 and the high 8 bits
Low24(v) == (v[1] % 256) * Half + v[2]
High8(v) == v[1] \div 256
Mod24 == 256 * Half
IsSum32(r, a, b) ==
    LET s == Low24(a) + Low24(b)
    IN  /\ Low24(r) = s % Mod24
        /\ High8(r) = (High8(a) + High8(b) + (s \div Mod24)) % 256
IsU32(v) == v[1] \in 0..(Half - 1) /\ v[2] \in 0..(Half - 1)

\* C10: EMAUI: opcode 0 with funct 0x20 sets reg[rd] to (reg[rs] + reg[rt]) mod
\* 2^32 and funct 0x22 sets it to (reg[rs] - reg[rt]) mod 2^32, for all register
\* indices (rd equal to rs or rt included) and values; overflow and underflow
\* wrap and never fault (0xFFFFFFFF + 1 = 0, 0 - 1 = 0xFFFFFFFF, 100 + 200 =
\* 300), and no other register changes.
C10_AddSubWrap ==
    (variant = "EMAUI" /\ decoded.op \in {"ADD", "SUB"}) =>
        LET a == Reg(snap.registers, decoded.rs)
            b == Reg(snap.registers, decoded.rt)
            r == Reg(registers, decoded.rd)
        IN  /\ error = "none"
            /\ running
            /\ IsU32(r)
            /\ decoded.op = "ADD" => IsSum32(r, a, b)
            /\ decoded.op = "SUB" => IsSum32(a, r, b)
            /\ (decoded.op = "ADD" /\ a = <<65535, 65535>> /\ b = <<0, 1>>) => r = <<0, 0>>
            /\ (decoded.op = "ADD" /\ a = <<0, 100>> /\ b = <<0, 200>>) => r = <<0, 300>>
            /\ (decoded.op = "SUB" /\ a = <<0, 0>> /\ b = <<0, 1>>) => r = <<65535, 65535>>
            /\ \A i \in RegIdx :
                  i # decoded.rd => Reg(registers, i) = Reg(snap.registers, i)

\* add r1, r1, r2 has run with r1 = 0x0000FFFF and r2 = 1: the low half carried
\* into the high half of r1
C10_Witness ==
    /\ variant = "EMAUI"
    /\ decoded.op = "ADD"
    /\ decoded.rd = 1 /\ decoded.rs = 1 /\ decoded.rt = 2
    /\ Reg(snap.registers, 1) = <<0, 65535>>
    /\ Reg(snap.registers, 2) = <<0, 1>>
    /\ Reg(registers, 1) = <<1, 0>>
    /\ error = "none"

(***************************************************************************)
(* The EMAUI loop body on drawn inputs: two ADDI or LUI words followed by  *)
(* the halt word, run from a register file whose register 1 holds any of   *)
(* RegVals.                                                                *)
(***************************************************************************)
\* 0, 1, 0x7FFF, 0x8000, 0xFFFF
ImmVals == {0, 1, 32767, 32768, 65535}
ImmWords ==
    { IType(8, rs, rt, imm) : rs \in {0, 1}, rt \in {1, 2}, imm \in ImmVals }
      \cup { IType(15, 0, rt, imm) : rt \in {1, 2}, imm \in ImmVals }

InitImm ==
    \E np2 \in BOOLEAN, w1 \in ImmWords, w2 \in ImmWords, v1 \in RegVals :
        /\ variant = "EMAUI"
        /\ numpy2 = np2
        /\ memory = load_from(Memory_init, Bytes(<< w1, w2, HALT >>), 0).m
        /\ graphics = Graphics_init
        /\ pc = 0
        /\ registers = SetReg(Registers_init, 1, v1)
        /\ running = TRUE
        /\ cycles = 0
        /\ error = "none"
        /\ phase = "idle"
        /\ calls = << "load_program" >>
        /\ decoded = NoDecode
        /\ snap = [registers |-> registers, rdram |-> memory.rdram,
                   framebuffer |-> Graphics_init, pc |-> 0]
        /\ f_memory = Flames_Memory_init
        /\ f_graphics = Flames_Graphics_init
        /\ f_pc = 0
        /\ f_registers = Registers_init
        /\ f_running = TRUE
        /\ f_steps = 0
        /\ escaped = "none"
        /\ last = NoOp("EMAUI")
        /\ image = Image_init

SpecImm == InitImm /\ [][NextExec]_vars

\* the word the last loop iteration fetched
Fetched == WordAt(snap.rdram, snap.pc)
\* sign_extend16 of the claim, as a 32-bit value
Ext32(v) == IF v >= 32768 THEN <<Half - 1, v>> ELSE <<0, v>>
OthersKept(r) == \A i \in RegIdx : i # r => Reg(registers, i) = Reg(snap.registers, i)

\* C11: EMAUI: opcode 0x08 sets reg[rt] to (reg[rs] + sign_extend16(imm16)) mod
\* 2^32, without fault, for every reg[rs] and every imm16, negative immediates
\* included (reg[rs] = 0 with imm16 = 0x8000 gives 0xFFFF8000, with imm16 =
\* 0xFFFF gives 0xFFFFFFFF).
C11_AddImmediate ==
    (variant = "EMAUI" /\ decoded.op = "ADDI") =>
        LET a == Reg(snap.registers, FieldRs(Fetched))
            r == Reg(registers, FieldRt(Fetched))
            v == FieldImm(Fetched)
        IN  /\ error = "none"
            /\ running
            /\ IsU32(r)
            /\ IsSum32(r, a, Ext32(v))
            /\ (a = <<0, 0>> /\ v = 32768) => r = <<65535, 32768>>
            /\ (a = <<0, 0>> /\ v = 65535) => r = <<65535, 65535>>
            /\ OthersKept(FieldRt(Fetched))

\* the image of lui r1, 1 ; addi r1, r1, 0 ; halt
LuiAddiImage ==
    load_from(Memory_init, Bytes(<< IType(15, 0, 1, 1), IType(8, 1, 1, 0), HALT >>), 0).m.rdram

\* C12: EMAUI: opcode 0x0F sets reg[rt] to imm16 * 2^16, low 16 bits zero, no
\* sign extension, for every imm16 and whatever reg[rt] held; lui r1, 1
\* followed by addi r1, r1, 0 leaves reg[1] = 0x00010000.
C12_LoadUpperImmediate ==
    /\ (variant = "EMAUI" /\ decoded.op = "LUI") =>
          /\ error = "none"
          /\ running
          /\ Reg(registers, FieldRt(Fetched))[1] = FieldImm(Fetched)
          /\ Reg(registers, FieldRt(Fetched))[2] = 0
          /\ OthersKept(FieldRt(Fetched))
    /\ (variant = "EMAUI" /\ memory.rdram = LuiAddiImage /\ pc >= 8) =>
          /\ Reg(registers, 1) = <<1, 0>>
          /\ error = "none"

\* lui r1, 0x8000 has run over a register 1 that held 0xFFFFFFFF
C12_Witness ==
    /\ variant = "EMAUI"
    /\ decoded.op = "LUI"
    /\ FieldRt(Fetched) = 1 /\ FieldImm(Fetched) = 32768
    /\ Reg(snap.registers, 1) = <<65535, 65535>>
    /\ Reg(registers, 1) = <<32768, 0>>

(***************************************************************************)
(* The EMAUI loop body on drawn inputs: draw rectangle, render, halt, run  *)
(* from registers 1..5 holding coordinates inside, at the edge of and far  *)
(* outside the framebuffer, over a framebuffer filled with a background    *)
(* color (as an earlier draw rectangle leaves it).                         *)
(***************************************************************************)
Max32 == <<Half - 1, Half - 1>>
DrawXs == { <<0, 0>>, <<0, 1>>, <<0, width - 1>>, <<0, width>>, Max32 }
DrawYs == { <<0, 0>>, <<0, 1>>, <<0, height>>, Max32 }
DrawWs == { <<0, 0>>, <<0, 1>>, <<0, 2>>, <<0, width + 1>>, Max32 }
DrawHs == { <<0, 0>>, <<0, 1>>, <<0, height + 1>>, Max32 }
\* 0x001F, 0xFFFF, 0x0001001F
DrawColors == { <<0, 31>>, <<0, 65535>>, <<1, 31>> }
\* 0x0000, 0x83E0 (bit 15 and green), 0x7FFF
Backgrounds == {0, 33760, 32767}

InitDraw ==
    \E np2 \in BOOLEAN, x \in DrawXs, y \in DrawYs, w \in DrawWs, h \in DrawHs,
       color \in DrawColors, bg \in Backgrounds :
        /\ variant = "EMAUI"
        /\ numpy2 = np2
        /\ memory = load_from(Memory_init,
                              Bytes(<< IType(45, 0, 0, 0), IType(46, 0, 0, 0), HALT >>), 0).m
        /\ graphics = [row \in Rows |-> [col \in Cols |-> bg]]
        /\ pc = 0
        /\ registers = SetReg(SetReg(SetReg(SetReg(SetReg(Registers_init,
                           1, x), 2, y), 3, w), 4, h), 5, color)
        /\ running = TRUE
        /\ cycles = 0
        /\ error = "none"
        /\ phase = "idle"
        /\ calls = << "load_program" >>
        /\ decoded = NoDecode
        /\ snap = [registers |-> registers, rdram |-> memory.rdram,
                   framebuffer |-> graphics, pc |-> 0]
        /\ f_memory = Flames_Memory_init
        /\ f_graphics = Flames_Graphics_init
        /\ f_pc = 0
        /\ f_registers = Registers_init
        /\ f_running = TRUE
        /\ f_steps = 0
        /\ escaped = "none"
        /\ last = NoOp("EMAUI")
        /\ image = Image_init

SpecDraw == InitDraw /\ [][NextExec]_vars

\* lo <= i < lo + len for a cell index i and 32-bit lo, len (no wrap-around)
InSpan(i, lo, len) == lo[1] = 0 /\ lo[2] <= i /\ (len[1] > 0 \/ len[2] > i - lo[2])

\* C13: EMAUI: opcode 0x2D with x, y, width, height, color from registers 1..5
\* sets every framebuffer cell (col, row) with x <= col < x + width, y <= row <
\* y + height inside the framebuffer to color and leaves every other cell
\* unchanged; a rectangle that is empty after clipping changes nothing; it never
\* faults.
C13_DrawRectangle ==
    (variant = "EMAUI" /\ decoded.op = "DRAW") =>
        LET x == Reg(snap.registers, 1)
            y == Reg(snap.registers, 2)
            w == Reg(snap.registers, 3)
            h == Reg(snap.registers, 4)
            color == Reg(snap.registers, 5)
        IN  /\ error = "none"
            /\ running
            /\ registers = snap.registers
            /\ \A row \in Rows : \A col \in Cols :
                  IF InSpan(col, x, w) /\ InSpan(row, y, h)
                  THEN color[1] = 0 /\ graphics[row][col] = color[2]
                  ELSE graphics[row][col] = snap.framebuffer[row][col]

(***************************************************************************)
(* Claims about the PC, the registers and load_program, checked under Spec.*)
(***************************************************************************)
\* C14: in both variants PC is a multiple of 4 in every state reachable by
\* load_program and run(): it starts at 0, each fetch adds 4, and a Flames jump
\* sets it to a value whose low two bits are 0.
C14_PcMultipleOf4 ==
    /\ pc % 4 = 0
    /\ f_pc % 4 = 0
    /\ pc >= 0
    /\ f_pc >= 0

\* the Flames kernel has executed the jump to 8 fetched at address 0
C14_Witness ==
    /\ variant = "Flames"
    /\ LastCall = "run"
    /\ f_steps = 1
    /\ snap.pc = 0
    /\ f_pc = 8

\* C15: in both variants every one of the 32 registers holds an unsigned 32-bit
\* value in every state reachable from the all-zero register file.
C15_RegistersAre32Bit ==
    \A i \in RegIdx : IsU32(Reg(registers, i)) /\ IsU32(Reg(f_registers, i))

\* what load_program(program) is to leave behind in the EMAUI kernel
EmauiLoaded(program) ==
    LET k == Min(Len(program), RDRAM_SIZE)
    IN  /\ \A i \in 0..(RDRAM_SIZE - 1) :
              memory'.rdram[i] = IF i < k THEN program[i + 1] % 256 ELSE memory.rdram[i]
        /\ memory'.pif_rom = memory.pif_rom
        /\ IF Len(program) > RDRAM_SIZE
           THEN escaped' = "MemoryError" /\ pc' = pc
           ELSE escaped' = "none" /\ pc' = 0
\* and in the Flames kernel
FlamesLoaded(program) ==
    LET k == Min(Len(program), FLAMES_SIZE)
    IN  /\ Len(f_memory'.memory) = Len(f_memory.memory)
        /\ \A i \in 1..Len(f_memory.memory) :
              f_memory'.memory[i] = IF i <= k THEN program[i] ELSE f_memory.memory[i]
        /\ IF Len(program) > FLAMES_SIZE
           THEN escaped' = "MemoryError" /\ f_pc' = f_pc
           ELSE escaped' = "none" /\ f_pc' = 0

\* C16: load_program(bytes) lands all bytes or fails at the first violation:
\* when byte k is the first whose address is past the end of the RAM the call
\* raises there, bytes 0..k-1 have been written, no address at or after k is
\* modified and PC is not reset to 0.
C16_LoadProgramPartial ==
    [][ (calls' = Append(calls, "load_program")) =>
            IF variant = "EMAUI"
            THEN \E program \in EmauiPrograms \cup {Items(demo_program)} :
                    EmauiLoaded(program)
            ELSE \E program \in Programs : FlamesLoaded(program) ]_vars

\* a second load_program, of one byte more than the RAM holds, has failed
\* after a run that left PC at 8: the RAM holds the program's first bytes and
\* PC is still 8
C16_Witness ==
    /\ variant = "EMAUI"
    /\ calls = << "load_program", "run", "load_program" >>
    /\ escaped = "MemoryError"
    /\ pc = 8
    /\ memory.rdram = HaltImage
    /\ snap.rdram # HaltImage

\* the word the last Flames loop iteration fetched
Flames_Fetched == unpack(SubSeq(snap.rdram, snap.pc + 1, snap.pc + 4))
\* the image of jump 8 ; r1 += 9 ; halt
Jump8Image == Bytes(<< JType(2, 2), IType(1, 1, 0, 9), HALT >>)

\* C17: Flames: the Jump opcode (2) fetched at address p sets PC to
\* ((p + 4) AND 0xF0000000) OR (target26 * 4); the next instruction fetched is
\* the one at that address, not the one at p + 4; no register changes.
C17_FlamesJump ==
    /\ (variant = "Flames" /\ LastCall = "run" /\ f_steps >= 1
          /\ snap.pc >= 0 /\ snap.pc + 4 <= Len(snap.rdram)
          /\ Opcode(Flames_Fetched) = 2) =>
          /\ f_pc = ((snap.pc + 4) \div TopNibble) * TopNibble
                      + ((Flames_Fetched[1] % 1024) * Half + Flames_Fetched[2]) * 4
          /\ f_registers = snap.registers
          /\ f_graphics = snap.framebuffer
          /\ f_running
    /\ (variant = "Flames" /\ calls = << "load_program", "run" >>
          /\ f_memory.memory = Jump8Image) =>
          /\ f_pc \in {0, 8, 12}
          /\ Reg(f_registers, 1) = <<0, 0>>
          /\ (phase = "idle" => (f_pc = 12 /\ f_steps = 2 /\ ~f_running))

\* the run of jump 8 ; r1 += 9 ; halt has ended at the halt word, r1 still 0
C17_Witness ==
    /\ variant = "Flames"
    /\ calls = << "load_program", "run" >>
    /\ f_memory.memory = Jump8Image
    /\ phase = "idle"
    /\ f_pc = 12
    /\ f_steps = 2
    /\ Reg(f_registers, 1) = <<0, 0>>

(***************************************************************************)
(* Claims about render, checked under SpecDraw.                            *)
(***************************************************************************)
\* C18: EMAUI: the display conversion is a pure function of the framebuffer:
\* a cell c gives red = ((c >> 10) AND 0x1F) * 8, green = ((c >> 5) AND 0x1F) * 8,
\* blue = (c AND 0x1F) * 8, each in 0..248; bit 15 of c has no effect; render
\* leaves the framebuffer, the registers, the memory and the PC unchanged.
C18_RenderConversion ==
    (variant = "EMAUI" /\ decoded.op = "RENDER") =>
        /\ error = "none"
        /\ running
        /\ graphics = snap.framebuffer
        /\ registers = snap.registers
        /\ memory.rdram = snap.rdram
        /\ pc = snap.pc + 4
        /\ \A row \in Rows : \A col \in Cols :
              LET px == image[row][col]
                  c == graphics[row][col]
              IN  /\ \A ch \in 1..3 : px[ch] \in 0..248 /\ px[ch] % 8 = 0
                  /\ (px[1] \div 8) * 1024 + (px[2] \div 8) * 32 + (px[3] \div 8)
                        = c % 32768

\* render has run over a framebuffer whose cell (0, 0) holds 0x001F and
\* another cell 0x83E0: blue 248 for the first, green 248 and red 0 for the
\* second
C18_Witness ==
    /\ variant = "EMAUI"
    /\ decoded.op = "RENDER"
    /\ graphics[0][0] = 31
    /\ image[0][0] = <<0, 0, 248>>
    /\ \E row \in Rows : \E col \in Cols :
          graphics[row][col] = 33760 /\ image[row][col] = <<0, 248, 0>>

(***************************************************************************)
(* Claims about the demo program and about faults, checked under Spec.     *)
(***************************************************************************)
\* the RDRAM after load_program(demo_program)
DemoImage == load_from(Memory_init, Items(demo_program), 0).m.rdram

\* C19: EMAUI: load_program of the built-in demo program followed by run()
\* executes its nine instructions in the commented order: the run ends halted
\* at the halt instruction after exactly nine fetches, without fault, with
\* reg[1] = 0x00010000, reg[2] = 100, reg[3] = 200, reg[4] = 150, reg[5] = 0x1F.
C19_DemoProgram ==
    (variant = "EMAUI" /\ calls = << "load_program", "run" >> /\ phase = "idle"
       /\ memory.rdram = DemoImage) =>
        /\ cycles = 9
        /\ pc = 36
        /\ ~running
        /\ error = "none"
        /\ decoded.op = "HALT"
        /\ Reg(registers, 1) = <<1, 0>>
        /\ Reg(registers, 2) = <<0, 100>>
        /\ Reg(registers, 3) = <<0, 200>>
        /\ Reg(registers, 4) = <<0, 150>>
        /\ Reg(registers, 5) = <<0, 31>>

\* C20: EMAUI: an instruction that faults during run() commits nothing: after a
\* fault (unknown opcode, opcode 0 with an unsupported funct, fetch from an
\* unmapped PC) the registers, every memory byte and every framebuffer cell are
\* what they were just before that instruction was fetched; only PC, cycles,
\* the read counter and the running flag may differ.
C20_FaultCommitsNothing ==
    (variant = "EMAUI" /\ NoLoadAfterRun /\ error # "none") =>
        /\ registers = snap.registers
        /\ memory.rdram = snap.rdram
        /\ memory.pif_rom = Memory_init.pif_rom
        /\ graphics = snap.framebuffer
        /\ ~running
        /\ pc \in {snap.pc, snap.pc + 4}
        /\ (error = "MemoryError" => (pc = snap.pc /\ decoded.op = "nothing"))
        /\ (error = "ValueError" => decoded.op = "UNKNOWN")
        /\ (error = "TypeError" => (decoded.opcode = 0 /\ decoded.funct \notin {32, 34}))

\* the unknown opcode 1 fetched at address 0 has faulted during
\* run(): the registers are still all zero and the RAM still holds the program
C20_Witness ==
    /\ variant = "EMAUI"
    /\ LastCall = "run"
    /\ phase = "run"
    /\ error = "ValueError"
    /\ decoded.opcode = 1
    /\ snap.pc = 0
    /\ pc = 4
    /\ registers = Registers_init
    /\ memory.rdram = snap.rdram

(***************************************************************************)
(* Claims about load_program's frame and about termination.                *)
(***************************************************************************)
\* C21: EMAUI: a successful load_program(p) stores p[i] AND 0xFF at address i
\* for every index i, sets PC to 0 and changes nothing else (registers, the
\* running flag, cycles and the framebuffer stay); so once running is False no
\* sequence of load_program and run() calls executes another instruction.
C21_LoadProgramFrame ==
    [][ /\ (variant = "EMAUI" /\ calls' = Append(calls, "load_program")
              /\ escaped' = "none") =>
              /\ pc' = 0
              /\ UNCHANGED << registers, running, cycles, graphics, error, image, phase >>
              /\ memory'.pif_rom = memory.pif_rom
              /\ \E p \in EmauiPrograms \cup {Items(demo_program)} :
                    /\ Len(p) <= RDRAM_SIZE
                    /\ \A i \in 0..(RDRAM_SIZE - 1) :
                          memory'.rdram[i] =
                              IF i < Len(p) THEN p[i + 1] % 256 ELSE memory.rdram[i]
        /\ (variant = "EMAUI" /\ ~running) =>
              /\ ~running'
              /\ UNCHANGED << registers, cycles, graphics, image, decoded, error >>
      ]_vars

\* a kernel halted by a first run was loaded again and run again: PC is the 0
\* the second load set, cycles still counts the one fetch of the first run,
\* and the addi at address 0 was not executed
C21_Witness ==
    /\ variant = "EMAUI"
    /\ calls = << "load_program", "run", "load_program", "run" >>
    /\ phase = "idle"
    /\ ~running
    /\ error = "none"
    /\ cycles = 1
    /\ pc = 0
    /\ Opcode(WordAt(memory.rdram, 0)) = 8
    /\ registers = Registers_init

(***************************************************************************)
(* run() of the EMAUI kernel over drawn memory contents: load_program      *)
(* of any three of TermWords on the Kernel just constructed, under either  *)
(* numpy.  Once called, run() goes on by itself: its loop iterations and   *)
(* its return are weakly fair; whether run() is called at all is up to the *)
(* caller.                                                                 *)
(***************************************************************************)
\* halt, the zero word (opcode 0 with funct 0: nothing decoded), addi r1 += -1
\* (faults under numpy 2), render, and opcode 2 with target 0 (Flames' jump,
\* unknown here)
TermWords ==
    { HALT, Zero32, IType(8, 1, 1, 65535), IType(46, 0, 0, 0), JType(2, 0) }

InitTerm ==
    \E np2 \in BOOLEAN :
        /\ variant = "EMAUI"
        /\ numpy2 = np2
        /\ memory = Memory_init
        /\ graphics = Graphics_init
        /\ pc = 0
        /\ registers = Registers_init
        /\ running = TRUE
        /\ cycles = 0
        /\ error = "none"
        /\ phase = "idle"
        /\ calls = << >>
        /\ decoded = NoDecode
        /\ snap = [registers |-> registers, rdram |-> memory.rdram,
                   framebuffer |-> Graphics_init, pc |-> 0]
        /\ f_memory = Flames_Memory_init
        /\ f_graphics = Flames_Graphics_init
        /\ f_pc = 0
        /\ f_registers = Registers_init
        /\ f_running = TRUE
        /\ f_steps = 0
        /\ escaped = "none"
        /\ last = NoOp("EMAUI")
        /\ image = Image_init

\* Kernel.load_program of three of TermWords, on the Kernel just constructed
LoadWords ==
    /\ variant = "EMAUI" /\ phase = "idle"
    /\ calls = << >>
    /\ \E w1 \in TermWords, w2 \in TermWords, w3 \in TermWords :
          LET r == load_from(memory, Bytes(<< w1, w2, w3 >>), 0)
          IN  /\ memory' = r.m
              /\ pc' = IF r.err = "none" THEN 0 ELSE pc
              /\ escaped' = r.err
    /\ calls' = Append(calls, "load_program")
    /\ UNCHANGED <<variant, numpy2, graphics, registers, running, cycles, error, phase,
                   decoded, snap, f_memory, f_graphics, f_pc, f_registers, f_running,
                   f_steps, last, image>>

NextTerm ==
    \/ LoadWords
    \/ RunCall
    \/ Step
    \/ RunReturn

SpecTerm == InitTerm /\ [][NextTerm]_vars /\ WF_vars(Step) /\ WF_vars(RunReturn)

\* C22: EMAUI: run() terminates for every memory content and register state:
\* a run in progress always comes to its return with running = False, at the
\* latest after the fetch at the first address past the RDRAM has failed.
C22_RunTerminates ==
    (variant = "EMAUI" /\ phase = "run") ~>
        (phase = "idle" /\ ~running /\ pc <= 4 * ((RDRAM_SIZE + 3) \div 4))

\* a run over three words without halt or fault has ended by the failed fetch
\* past the last whole word of the RDRAM
C22_Witness ==
    /\ variant = "EMAUI"
    /\ phase = "idle"
    /\ LastCall = "run"
    /\ ~running
    /\ cycles = RDRAM_SIZE \div 4
    /\ pc = 4 * (RDRAM_SIZE \div 4)
    /\ error \in {"MemoryError", "struct.error"}
    /\ decoded = NoDecode

====
